---- MODULE Spec2Model ----
(***************************************************************************)
(* Weather-Telemetry: the fetcher (scheduler, worker pool, token bucket,   *)
(* upstream client) and the processor (stream consumer, time-series        *)
(* writer), with the Redis broker and the InfluxDB store they talk to.     *)
(*                                                                         *)
(* Time is a global wall clock counted in ticks of 1/TicksPerSec second.   *)
(* Every broker command is one atomic step at the broker; a client's       *)
(* commands take effect in the order they were written to its connection.  *)
(* A worker belongs to a fetcher replica (one process, one connection).    *)
(***************************************************************************)
EXTENDS Integers, Sequences, FiniteSets, TLC

\* ------------------------------------------------------------------ bounds
TicksPerSec == 1
MaxTime == 0
NumWorkers == 2
MaxExcess == 1
NumLocations == 2
MaxCycles == 2
MaxStream == 2
MaxBatch == 1
MaxSeconds == 2
MaxIdle == 2

\* ------------------------------------------------------- program constants
CAPACITY == 8
MAX_RPS == 8
COOLDOWN_S == 30
BUCKET_TTL_S == 60
RETRIES == 5

\* COUNT of the group reads (50 in the source), scaled to the stream bound
BATCH_SIZE == MaxBatch
NUM_WORKERS == 50
CatalogSize == 500
CronPeriod == 60

Workers == 1..NumWorkers
Replicas == {1, 2}
Locations == 1..NumLocations

\* The instants at which something happens: the first MaxTime ticks, and the
\* same again one cooldown later.  The clock steps from one to the next.
Epochs == {0, COOLDOWN_S * TicksPerSec}
Instants == {e + k : e \in Epochs, k \in 0..MaxTime}
LastInstant == CHOOSE t \in Instants : \A u \in Instants : u <= t
NextInstant(t) == CHOOSE u \in Instants :
                    u > t /\ \A v \in Instants : v > t => u <= v

Max(a, b) == IF a >= b THEN a ELSE b
Min(a, b) == IF a <= b THEN a ELSE b
CeilDiv(a, b) == (a + b - 1) \div b

VARIABLES
  clock,          \* wall-clock time, in ticks
  \* ---- deployment
  placement,      \* the fetcher replica each worker runs in
  observe,        \* which events the meters below are counting
  \* ---- broker keys
  bucket,         \* hash rate_limiter:weather_api:bucket
  cooldown,       \* expiry tick of rate_limiter:weather_api:cooldown, 0 = absent
  queue,          \* list weather:locations:queue, head first
  cycleKey,       \* weather:cycle:id, 0 = absent
  startKey,       \* weather:cycle:start_ms, -1 = absent
  stream,         \* stream weather:raw, oldest entry first
  \* ---- fetcher replicas
  spc,            \* position of each replica's scheduler in enqueueLocations
  scyc,           \* the cycleId its INCR returned
  sstart,         \* its startMs
  spipe,          \* commands of its pipeline the broker has executed
  activeCycleId,  \* module variable of worker.ts, per replica
  cycleStartMs,   \* module variable of worker.ts, per replica
  wpc,            \* position of each worker in runWorker
  wjob,           \* the item its BRPOP returned
  wnow,           \* the `now` argument it computed for its EVAL
  wwake,          \* the tick at which its sleep timer fires
  wattempt,       \* retries already made by its current fetchWeather call
  wres,           \* how its fetchWeather call ended: "ok" or the error
  wobs,           \* the current_weather the upstream answered it with
  conn,           \* per replica: workers whose EVAL is in flight, oldest first
  \* ---- processor
  grp,            \* consumer group processor-group of the stream
  cpc,            \* position of the processor in startConsumer
  cphase,         \* which loop of startConsumer it is in
  cbatch,         \* IDs of the batch processMessages still has to go through
  wbuf,           \* points buffered by the writer, with the entry they are of
  store,          \* points in the time-series store
  hret,           \* per entry: how the handler ended in its last iteration
  pendingAtStart, \* the pending entries when the processor last started
  p1Handled,      \* entries phase 1 has passed to the handler since then
  emptySeen,      \* a read of the pending list has returned empty since then
  flushes,        \* per entry: flushes that carried a point of it, up to 2
  wstate,         \* the writer: open, closing (close() is flushing) or closed
  \* ---- observers
  grantsAt,       \* number of GRANTED results per instant
  requestsAt,     \* number of upstream HTTP requests per instant
  popped,         \* the jobs a pop has returned
  throttles,      \* notifyThrottled calls since the flag was last set, up to 2
  \* ---- the fetcher at full size, by numbers
  lsec,           \* seconds since the last cron tick
  lqueue,         \* jobs in the queue: those of the last lqueue catalog entries
  lheld,          \* workers that hold a job and wait in acquire()
  ltokens,        \* whole tokens in the bucket
  ldropped,       \* the last catalog entry's job was deleted and not popped since
  \* ---- mock mode, analytics, provenance
  wmock,          \* per worker: the payload mockFetchWeather returned
  oks,            \* success increments of the analytics buckets, in all
  fetched,        \* per stream entry: the location and response it was built of
  wstart,         \* per worker: fetchStart of its iteration
  analyticsMap,   \* per replica: the second buckets, keyed by <<cycle, offset>>
  lastReportedSecond, \* per replica: the reporter's variable, -1 at start
  reported,       \* per replica: the lines the reporter wrote, oldest first
  wseen,          \* per worker: the cycle ID and start its last MGET left cached
  eternal         \* the bucket as it would be if its key never expired

keyVars   == <<bucket, cooldown>>
queueVars == <<queue, cycleKey, startKey>>
schedVars == <<spc, scyc, sstart, spipe>>
procVars  == <<activeCycleId, cycleStartMs>>
workVars  == <<wpc, wjob, wnow, wwake, wattempt, wres, wobs, conn>>
meterVars == <<grantsAt, requestsAt, popped, throttles>>

cfgVars   == <<placement, observe>>

loadVars  == <<lsec, lqueue, lheld, ltokens, ldropped>>

repVars   == <<lastReportedSecond, reported, wseen, eternal>>
sideVars  == <<wmock, oks, fetched, wstart, analyticsMap, repVars>>

fetcherVars == <<clock, cfgVars, keyVars, queueVars, stream, schedVars, procVars,
                 workVars, meterVars, loadVars, sideVars>>

consVars  == <<grp, cpc, cphase, cbatch, hret, pendingAtStart, p1Handled,
               emptySeen>>
writeVars == <<wbuf, store, flushes, wstate>>

processorVars == <<consVars, writeVars>>

vars == <<fetcherVars, processorVars>>

\* worker w runs in the fetcher replica replicaOf(w)
replicaOf(w) == placement[w]

\* -------------------------------------------------------------- rate logs
\* Events are logged per instant.  A GRANTED result is dated by the time its
\* acquire() call read the clock (the timestamp the script was given), an
\* upstream request by the time it was sent.
Count(log, on, t) == IF on THEN [log EXCEPT ![t] = @ + 1] ELSE log

\* the set of logged items after x is logged
Record(set, on, x) == IF on THEN set \cup {x} ELSE set

\* a sequence of logged items after x is logged
Trace(seq, on, x) == IF on THEN Append(seq, x) ELSE seq

\* the success counter after an increment (it is followed up to one past the
\* longest stream)
OkCount(n, on) == IF on THEN Min(n + 1, MaxStream + 1) ELSE n

\* the count of notifyThrottled calls after one at time t that found the
\* cooldown key expiring at cd: 1 if it set the key, one more if it did not
ThrottleCount(n, on, cd, t) ==
  IF ~on THEN n ELSE IF cd > t THEN (IF n < 2 THEN n + 1 ELSE 2) ELSE 1

\* Date.now() where the analytics are followed
Stamp(on, t) == IF on THEN t ELSE 0

\* Math.floor((t - startMs) / 1000)
SecondOffset(t, startMs) == (t - startMs) \div TicksPerSec

\* what getBucket inserts for a new key
EmptyBucket == [ok |-> 0, fail |-> 0, timeout |-> 0]

\* the map after getBucket(cycleId, secondOffset)
GetBucket(map, cycleId, secondOffset) ==
  IF <<cycleId, secondOffset>> \in DOMAIN map THEN map
  ELSE map @@ (<<cycleId, secondOffset>> :> EmptyBucket)

\* the map after getBucket(cycleId, secondOffset).<counter>++
Increment(map, cycleId, secondOffset, counter) ==
  [GetBucket(map, cycleId, secondOffset)
     EXCEPT ![<<cycleId, secondOffset>>][counter] = @ + 1]

\* a replica's map after one of its workers has counted an outcome
CountOutcome(maps, on, r, cycleId, secondOffset, counter) ==
  IF on THEN [maps EXCEPT ![r] = Increment(@, cycleId, secondOffset, counter)]
  ELSE maps

\* variant: a timeout is counted as any other failure
ErrorCounterFailOnly(o) == "fail"

\* the counter the catch block increments for an error
ErrorCounter(o) == IF o = "timeout" THEN "timeout" ELSE "fail"

RECURSIVE SumOver(_, _)
SumOver(log, ts) ==
  IF ts = {} THEN 0
  ELSE LET t == CHOOSE u \in ts : TRUE IN log[t] + SumOver(log, ts \ {t})

\* the sum of one counter over all second buckets of a map
CounterSum(map, counter) ==
  SumOver([k \in DOMAIN map |-> map[k][counter]], DOMAIN map)

\* failures are followed up to this many per process
CountCap == NumLocations + MaxExcess

\* the catch block's counters are within what is followed
CanCount(maps, on, r) ==
  on => CounterSum(maps[r], "fail") + CounterSum(maps[r], "timeout") < CountCap

\* the events logged in the window [t1, t2]
InWindow(log, t1, t2) == SumOver(log, {t \in Instants : t1 <= t /\ t <= t2})

\* ceil(CAPACITY + MAX_RPS * d) for a window of d ticks
RateBound(d) == CeilDiv(CAPACITY * TicksPerSec + MAX_RPS * d, TicksPerSec)

\* every window of the log is within the rate bound
WithinRate(log) ==
  \A t1, t2 \in Instants :
    t1 <= t2 => InWindow(log, t1, t2) <= RateBound(t2 - t1)

\* exploration stops MaxExcess events beyond the bound of one instant
LogCap == CAPACITY + MaxExcess

\* ------------------------------------------------------------ token bucket
\* Token counts are stored multiplied by TicksPerSec, so that a refill of
\* MAX_RPS tokens per second is the integer MAX_RPS per tick.
Scaled(n) == n * TicksPerSec

NoBucket == [present |-> FALSE, tokens |-> 0, last_refill |-> 0, expire |-> 0]

\* variant: the key expires as soon as it is written, before any refill
BucketLiveGone(b, t) == b.present /\ t < b.expire - BUCKET_TTL_S * TicksPerSec

\* the key exists and its EXPIRE deadline has not passed at broker time t
BucketLive(b, t) == b.present /\ t < b.expire

\* variant: the refill is not capped at the capacity
ConsumeLuaUncapped(b, now, t) ==
  LET tokens      == IF BucketLive(b, t) THEN b.tokens ELSE Scaled(CAPACITY)
      last_refill == IF BucketLive(b, t) THEN b.last_refill ELSE now
      elapsed     == Max(0, now - last_refill)
      new_tokens  == tokens + elapsed * MAX_RPS
      granted     == new_tokens >= Scaled(1)
  IN  [granted |-> granted,
       bucket  |-> [present     |-> TRUE,
                    tokens      |-> IF granted THEN new_tokens - Scaled(1)
                                               ELSE new_tokens,
                    last_refill |-> now,
                    expire      |-> t + BUCKET_TTL_S * TicksPerSec]]

\* CONSUME_LUA, evaluated at broker time t with the client's timestamp now
ConsumeLua(b, now, t) ==
  LET tokens      == IF BucketLive(b, t) THEN b.tokens ELSE Scaled(CAPACITY)
      last_refill == IF BucketLive(b, t) THEN b.last_refill ELSE now
      elapsed     == Max(0, now - last_refill)
      new_tokens  == Min(Scaled(CAPACITY), tokens + elapsed * MAX_RPS)
      granted     == new_tokens >= Scaled(1)
  IN  [granted |-> granted,
       bucket  |-> [present     |-> TRUE,
                    tokens      |-> IF granted THEN new_tokens - Scaled(1)
                                               ELSE new_tokens,
                    last_refill |-> now,
                    expire      |-> t + BUCKET_TTL_S * TicksPerSec]]

\* the bucket with its EXPIRE deadline put off, to more than a time to live
\* after broker time t
KeptAlive(b, t) == [b EXCEPT !.expire = t + BUCKET_TTL_S * TicksPerSec + 1]

\* variant: the reply is twice the remaining time
CooldownPttlTwice(cd, t) == IF cd > t THEN 2 * (cd - t) ELSE 0

\* PTTL of the cooldown key at broker time t, in ticks (<= 0: no cooldown)
CooldownPttl(cd, t) == IF cd > t THEN cd - t ELSE 0

\* variant: SET key 1 EX 30, without NX
NotifyThrottledOverwrite(cd, t) == t + COOLDOWN_S * TicksPerSec

\* RateLimiter.notifyThrottled: SET key 1 EX 30 NX at broker time t
NotifyThrottled(cd, t) ==
  IF cd > t THEN cd ELSE t + COOLDOWN_S * TicksPerSec

\* a replica's commands are written to one connection in program order: while
\* its scheduler's pipeline is being executed, none of its workers' commands is
ConnFree(w) == spc[replicaOf(w)] # "pipe"

\* ----------------------------------------------------- RateLimiter.acquire
\* PTTL reply: sleep for the remaining cooldown, or go on to the script
AcqPttl(w) ==
  /\ wpc[w] = "acq_pttl"
  /\ ConnFree(w)
  /\ IF CooldownPttl(cooldown, clock) > 0
       THEN /\ wpc' = [wpc EXCEPT ![w] = "acq_cooldown"]
            /\ wwake' = [wwake EXCEPT ![w] = clock + CooldownPttl(cooldown, clock)]
       ELSE /\ wpc' = [wpc EXCEPT ![w] = "acq_now"]
            /\ UNCHANGED wwake
  /\ UNCHANGED <<processorVars, sideVars, loadVars, clock, cfgVars, keyVars, queueVars, stream, schedVars,
                 procVars, wjob, wnow, wattempt, wres, wobs, conn, meterVars>>

\* the cooldown sleep is over: `continue`
AcqCooldownOver(w) ==
  /\ wpc[w] = "acq_cooldown"
  /\ clock >= wwake[w]
  /\ wpc' = [wpc EXCEPT ![w] = "acq_pttl"]
  /\ wwake' = [wwake EXCEPT ![w] = 0]
  /\ UNCHANGED <<processorVars, sideVars, loadVars, clock, cfgVars, keyVars, queueVars, stream, schedVars,
                 procVars, wjob, wnow, wattempt, wres, wobs, conn, meterVars>>

\* now = Date.now() / 1000 and the EVAL is written to the connection
AcqSendEval(w) ==
  /\ wpc[w] = "acq_now"
  /\ wnow' = [wnow EXCEPT ![w] = clock]
  /\ conn' = [conn EXCEPT ![replicaOf(w)] = Append(@, w)]
  /\ wpc' = [wpc EXCEPT ![w] = "acq_eval"]
  /\ UNCHANGED <<processorVars, sideVars, loadVars, clock, cfgVars, keyVars, queueVars, stream, schedVars,
                 procVars, wjob, wwake, wattempt, wres, wobs, meterVars>>

\* variant: acquire returns whatever the script answered
AcqEvalReturnsAnyway(w) ==
  /\ wpc[w] = "acq_eval"
  /\ ConnFree(w)
  /\ conn[replicaOf(w)] # <<>>
  /\ Head(conn[replicaOf(w)]) = w
  /\ observe = "grants" => grantsAt[wnow[w]] < LogCap
  /\ LET r == ConsumeLua(bucket, wnow[w], clock)
     IN  /\ bucket' = r.bucket
         /\ wpc' = [wpc EXCEPT ![w] = "fetch"]
         /\ wstart' = [wstart EXCEPT ![w] = Stamp(observe = "analytics", clock)]
         /\ IF r.granted
              THEN grantsAt' = Count(grantsAt, observe = "grants", wnow[w])
              ELSE UNCHANGED grantsAt
  /\ conn' = [conn EXCEPT ![replicaOf(w)] = Tail(@)]
  /\ wnow' = [wnow EXCEPT ![w] = 0]
  /\ UNCHANGED <<processorVars, wmock, oks, fetched, analyticsMap, repVars,
                 loadVars, clock, cfgVars, cooldown, queueVars, stream, schedVars,
                 procVars, wjob, wwake, wattempt, wres, wobs, requestsAt,
                 popped, throttles>>

\* the broker runs the script for the oldest EVAL of a connection; GRANTED
\* returns from acquire, DENIED sleeps
AcqEval(w) ==
  /\ wpc[w] = "acq_eval"
  /\ ConnFree(w)
  /\ conn[replicaOf(w)] # <<>>
  /\ Head(conn[replicaOf(w)]) = w
  /\ observe = "grants" => grantsAt[wnow[w]] < LogCap
  /\ LET r == ConsumeLua(bucket, wnow[w], clock)
     IN  /\ bucket' = r.bucket
         /\ IF r.granted
              THEN /\ wpc' = [wpc EXCEPT ![w] = "fetch"]
                   /\ wstart' = [wstart EXCEPT ![w] =
                                   Stamp(observe = "analytics", clock)]
                   /\ grantsAt' = Count(grantsAt, observe = "grants", wnow[w])
              ELSE /\ wpc' = [wpc EXCEPT ![w] = "acq_backoff"]
                   /\ UNCHANGED <<grantsAt, wstart>>
  /\ conn' = [conn EXCEPT ![replicaOf(w)] = Tail(@)]
  /\ wnow' = [wnow EXCEPT ![w] = 0]
  /\ UNCHANGED <<processorVars, wmock, oks, fetched, analyticsMap, repVars,
                 loadVars, clock, cfgVars, cooldown, queueVars, stream, schedVars,
                 procVars, wjob, wwake, wattempt, wres, wobs, requestsAt,
                 popped, throttles>>

\* DENIED: sleep(40) is shorter than a tick, the loop goes round
AcqBackoffOver(w) ==
  /\ wpc[w] = "acq_backoff"
  /\ wpc' = [wpc EXCEPT ![w] = "acq_pttl"]
  /\ UNCHANGED <<processorVars, sideVars, loadVars, clock, cfgVars, keyVars, queueVars, stream, schedVars,
                 procVars, wjob, wnow, wwake, wattempt, wres, wobs, conn,
                 meterVars>>

\* ----------------------------------------------------------- fetchWeather
\* what one HTTP attempt can end with
Outcomes == {"ok", "malformed", "net", "timeout",
             "s429", "s500", "s503", "s501", "s400"}

\* retryCondition of axiosRetry
RetryCondition(o) == o = "net" \/ o \in {"s429", "s500", "s502", "s503", "s504"}

\* axios-retry re-sends while retryCondition holds and fewer than `retries`
\* retries were made
ShouldRetry(o, retryCount) == RetryCondition(o) /\ retryCount < RETRIES

\* current_weather.time (unix seconds) of a response sent at time t: the
\* upstream refreshes its observation at each epoch and reports one it has made
UpstreamTimes(t) == {e \div TicksPerSec : e \in {u \in Epochs : u <= t}}

\* current_weather.weathercode of a response: one the table has, one it lacks
WeatherCodes == {0, 4}

\* current_weather.temperature of a response, in tenths of a degree
Temperatures == {-3, 214}

\* current_weather of a response sent at time t
Responses(t) == [time : UpstreamTimes(t), weathercode : WeatherCodes,
                 temperature : Temperatures]

NoResponse == [time |-> 0, weathercode |-> 0, temperature |-> 0]

\* the catalog entry of a location: its name is its index, its coordinates are
\* in tenths of a degree
Location(loc) == [city_name |-> loc,
                  latitude  |-> 130 * loc - 200,
                  longitude |-> 776 - 900 * loc]

WMO_CODES ==
  (0 :> "Clear sky") @@ (1 :> "Mainly clear") @@ (2 :> "Partly cloudy") @@
  (3 :> "Overcast") @@ (45 :> "Fog") @@ (48 :> "Rime fog") @@
  (51 :> "Light drizzle") @@ (53 :> "Moderate drizzle") @@
  (55 :> "Dense drizzle") @@ (61 :> "Slight rain") @@ (63 :> "Moderate rain") @@
  (65 :> "Heavy rain") @@ (71 :> "Slight snow") @@ (73 :> "Moderate snow") @@
  (75 :> "Heavy snow") @@ (80 :> "Slight showers") @@
  (81 :> "Moderate showers") @@ (82 :> "Violent showers") @@
  (95 :> "Thunderstorm") @@ (96 :> "Thunderstorm with hail") @@
  (99 :> "Thunderstorm with heavy hail")

\* wall-clock time in ms
NowMs == (clock * 1000) \div TicksPerSec

\* new Date(ms).toISOString(): the string that denotes the instant ms
ToISOString(ms) == [iso |-> ms]

\* Date.parse of such a string: the milliseconds it denotes
DateParse(str) == str.iso

\* String(x) of a number x given in tenths: sign, integer part, first decimal
NumberToString(x) ==
  LET a == IF x < 0 THEN -x ELSE x
  IN  [minus |-> x < 0, int |-> a \div 10, frac |-> a % 10]

\* a string that does not begin with a number, such as String(undefined)
NotNumeric == [text |-> "undefined"]

\* the value NaN, apart from every number that occurs
NaN == -1000000

\* isFinite
IsFinite(x) == x # NaN

\* variant: the sign is dropped
ParseFloatUnsigned(str) == str.int * 10 + str.frac

\* parseFloat of such a string, in tenths; NaN if it begins with no number
ParseFloat(str) ==
  IF "text" \in DOMAIN str THEN NaN
  ELSE IF str.minus THEN -(str.int * 10 + str.frac)
  ELSE str.int * 10 + str.frac

\* the WeatherPayload fetchWeather builds for the location named city from
\* current_weather cw
WeatherPayload(city, cw) ==
  [city_name         |-> Location(city).city_name,
   latitude          |-> Location(city).latitude,
   longitude         |-> Location(city).longitude,
   temperature       |-> cw.temperature,
   weather_condition |-> IF cw.weathercode \in DOMAIN WMO_CODES
                           THEN WMO_CODES[cw.weathercode]
                           ELSE "WMO-" \o ToString(cw.weathercode),
   recorded_at       |-> ToISOString(cw.time * 1000)]

\* no result held
NoPayload == [city_name |-> 0]

\* what pickCondition returns: a description of the weighted pool
MockConditions == {"Clear sky", "Moderate rain"}

\* mockFetchWeather: no HTTP call; the payload is made up from the location,
\* and recorded_at is the clock when the call returns
MockFetchWeather(w) ==
  /\ wpc[w] = "fetch"
  /\ \E temp \in Temperatures, cond \in MockConditions :
       wmock' = [wmock EXCEPT ![w] =
                   [city_name         |-> Location(wjob[w][1]).city_name,
                    latitude          |-> Location(wjob[w][1]).latitude,
                    longitude         |-> Location(wjob[w][1]).longitude,
                    temperature       |-> temp,
                    weather_condition |-> cond,
                    recorded_at       |-> ToISOString(NowMs)]]
  /\ wpc' = [wpc EXCEPT ![w] = "xadd"]
  /\ oks' = OkCount(oks, observe = "oks")
  /\ analyticsMap' =
       CountOutcome(analyticsMap, observe = "analytics", replicaOf(w),
                    activeCycleId[replicaOf(w)],
                    SecondOffset(wstart[w], cycleStartMs[replicaOf(w)]), "ok")
  /\ UNCHANGED <<processorVars, fetched, wstart, repVars, loadVars, clock, cfgVars, keyVars,
                 queueVars, stream, schedVars, procVars, wjob, wnow, wwake,
                 wattempt, wres, wobs, conn, meterVars>>

\* the result fetchWeather returned to runWorker: the mock's payload, or the
\* payload built from the upstream's response
FetchResult(w) == IF wmock[w] # NoPayload THEN wmock[w]
                  ELSE WeatherPayload(wjob[w][1], wobs[w])

\* one HTTP request of fetchWeather and what it leads to; when fetchWeather
\* returns, runWorker counts the success (bucket.ok++) before it goes on
FetchAttempt(w) ==
  /\ wpc[w] = "fetch"
  /\ requestsAt[clock] < LogCap
  /\ requestsAt' = Count(requestsAt, observe = "requests", clock)
  /\ \E o \in Outcomes :
       IF o = "ok"
         THEN /\ wpc' = [wpc EXCEPT ![w] = "xadd"]
              /\ \E cw \in Responses(clock) : wobs' = [wobs EXCEPT ![w] = cw]
              /\ wattempt' = [wattempt EXCEPT ![w] = 0]
              /\ oks' = OkCount(oks, observe = "oks")
              /\ analyticsMap' =
                   CountOutcome(analyticsMap, observe = "analytics",
                                replicaOf(w), activeCycleId[replicaOf(w)],
                                SecondOffset(wstart[w],
                                             cycleStartMs[replicaOf(w)]),
                                "ok")
              /\ UNCHANGED wres
         ELSE IF ShouldRetry(o, wattempt[w])
           THEN /\ wattempt' = [wattempt EXCEPT ![w] = @ + 1]
                /\ UNCHANGED <<wpc, wres, wobs, oks, analyticsMap>>
           ELSE /\ wpc' = [wpc EXCEPT ![w] = "catch"]
                /\ wres' = [wres EXCEPT ![w] = o]
                /\ wattempt' = [wattempt EXCEPT ![w] = 0]
                /\ UNCHANGED <<wobs, oks, analyticsMap>>
  /\ UNCHANGED <<processorVars, wmock, fetched, wstart, repVars, loadVars, clock, cfgVars, keyVars, queueVars, stream, schedVars,
                 procVars, wjob, wnow, wwake, conn, grantsAt, popped,
                 throttles>>

\* ---------------------------------------------------------------- runWorker
NoJob == <<0, 0>>

\* variant: the tail is read and left in the list
RPopKeep(q) == q

\* the list after a pop of its tail
RPopRest(q) == SubSeq(q, 1, Len(q) - 1)

\* BRPOP returned an item (an empty queue returns nil after 5 s: `continue`)
BRPop(w) ==
  /\ wpc[w] = "pop"
  /\ ConnFree(w)
  /\ queue # <<>>
  /\ wjob' = [wjob EXCEPT ![w] = queue[Len(queue)]]
  /\ queue' = RPopRest(queue)
  /\ wpc' = [wpc EXCEPT ![w] = "mget"]
  /\ popped' = Record(popped, observe = "pops", queue[Len(queue)])
  /\ UNCHANGED <<processorVars, sideVars, loadVars, clock, cfgVars, keyVars, cycleKey, startKey, stream,
                 schedVars, procVars, wnow, wwake, wattempt, wres, wobs, conn,
                 grantsAt, requestsAt, throttles>>

\* MGET of the cycle keys; a changed cycle ID replaces the cached pair
MGet(w) ==
  /\ wpc[w] = "mget"
  /\ ConnFree(w)
  /\ LET r == replicaOf(w)
         cycleId == cycleKey
     IN  IF cycleId # activeCycleId[r]
           THEN /\ activeCycleId' = [activeCycleId EXCEPT ![r] = cycleId]
                /\ cycleStartMs' = [cycleStartMs EXCEPT ![r] =
                                      IF startKey = -1 THEN clock ELSE startKey]
           ELSE UNCHANGED procVars
  /\ wseen' = IF observe = "analytics"
                THEN [wseen EXCEPT ![w] = <<activeCycleId'[replicaOf(w)],
                                           cycleStartMs'[replicaOf(w)]>>]
                ELSE wseen
  /\ wpc' = [wpc EXCEPT ![w] = "acq_pttl"]
  /\ UNCHANGED <<processorVars, wmock, oks, fetched, wstart, analyticsMap,
                 lastReportedSecond, reported, eternal, loadVars, clock, cfgVars, keyVars, queueVars, stream, schedVars,
                 wjob, wnow, wwake, wattempt, wres, wobs, conn, meterVars>>

\* the fields of the stream entry XADD appends for a fetch result
Entry(result) ==
  [city_name         |-> result.city_name,
   latitude          |-> NumberToString(result.latitude),
   longitude         |-> NumberToString(result.longitude),
   temperature       |-> NumberToString(result.temperature),
   weather_condition |-> result.weather_condition,
   recorded_at       |-> result.recorded_at]

\* variant: the result is appended twice
XaddTwice(w) ==
  /\ wpc[w] = "xadd"
  /\ ConnFree(w)
  /\ Len(stream) < MaxStream
  /\ stream' = Append(Append(stream, Entry(FetchResult(w))),
                      Entry(FetchResult(w)))
  /\ wpc' = [wpc EXCEPT ![w] = "pop"]
  /\ wjob' = [wjob EXCEPT ![w] = NoJob]
  /\ wobs' = [wobs EXCEPT ![w] = NoResponse]
  /\ wmock' = [wmock EXCEPT ![w] = NoPayload]
  /\ wstart' = [wstart EXCEPT ![w] = 0]
  /\ fetched' = Trace(fetched, observe = "trip", <<wjob[w][1], wobs[w]>>)
  /\ UNCHANGED <<processorVars, analyticsMap, repVars, loadVars, clock, cfgVars, keyVars, queueVars, schedVars, procVars,
                 wnow, wwake, wattempt, wres, conn, meterVars, oks>>

\* XADD of the result, end of the iteration
Xadd(w) ==
  /\ wpc[w] = "xadd"
  /\ ConnFree(w)
  /\ Len(stream) < MaxStream
  /\ stream' = Append(stream, Entry(FetchResult(w)))
  /\ wpc' = [wpc EXCEPT ![w] = "pop"]
  /\ wjob' = [wjob EXCEPT ![w] = NoJob]
  /\ wobs' = [wobs EXCEPT ![w] = NoResponse]
  /\ wmock' = [wmock EXCEPT ![w] = NoPayload]
  /\ wstart' = [wstart EXCEPT ![w] = 0]
  /\ fetched' = Trace(fetched, observe = "trip", <<wjob[w][1], wobs[w]>>)
  /\ UNCHANGED <<processorVars, analyticsMap, repVars, loadVars, clock, cfgVars, keyVars, queueVars, schedVars, procVars,
                 wnow, wwake, wattempt, wres, conn, meterVars, oks>>

\* the catch block: a 429 sets the cooldown; the error is counted in the
\* second bucket of the time of the catch; the job is dropped
WorkerCatch(w) ==
  /\ wpc[w] = "catch"
  /\ ConnFree(w)
  /\ CanCount(analyticsMap, observe = "analytics", replicaOf(w))
  /\ cooldown' = IF wres[w] = "s429" THEN NotifyThrottled(cooldown, clock)
                                     ELSE cooldown
  /\ analyticsMap' =
       CountOutcome(analyticsMap, observe = "analytics", replicaOf(w),
                    activeCycleId[replicaOf(w)],
                    SecondOffset(clock, cycleStartMs[replicaOf(w)]),
                    ErrorCounter(wres[w]))
  /\ wpc' = [wpc EXCEPT ![w] = "pop"]
  /\ wjob' = [wjob EXCEPT ![w] = NoJob]
  /\ wres' = [wres EXCEPT ![w] = "ok"]
  /\ wstart' = [wstart EXCEPT ![w] = 0]
  /\ throttles' = ThrottleCount(throttles,
                                observe = "throttles" /\ wres[w] = "s429",
                                cooldown, clock)
  /\ UNCHANGED <<processorVars, wmock, oks, fetched, repVars, loadVars, clock, cfgVars, bucket, queueVars, stream, schedVars,
                 procVars, wnow, wwake, wattempt, wobs, conn, grantsAt,
                 requestsAt, popped>>

\* a broker command of the try block rejects: control passes to the catch block
BrokerError(w) ==
  /\ wpc[w] \in {"pop", "mget", "acq_pttl", "xadd"}
  /\ wpc' = [wpc EXCEPT ![w] = "catch"]
  /\ wres' = [wres EXCEPT ![w] = "broker"]
  /\ UNCHANGED <<processorVars, sideVars, loadVars, clock, cfgVars, keyVars, queueVars, stream, schedVars,
                 procVars, wjob, wnow, wwake, wattempt, wobs, conn, meterVars>>

\* the SET of notifyThrottled rejects inside the catch block: the error leaves
\* the while loop and runWorker's promise rejects
CatchThrows(w) ==
  /\ wpc[w] = "catch"
  /\ wres[w] = "s429"
  /\ wpc' = [wpc EXCEPT ![w] = "dead"]
  /\ wjob' = [wjob EXCEPT ![w] = NoJob]
  /\ UNCHANGED <<processorVars, sideVars, loadVars, clock, cfgVars, keyVars, queueVars, stream, schedVars,
                 procVars, wnow, wwake, wattempt, wres, wobs, conn, meterVars>>

\* ---------------------------------------------------------------- scheduler
\* the pipeline of enqueueLocations: SET start, DEL queue, one LPUSH per
\* location in catalog order
PipelineLen == 2 + NumLocations

\* a pipeline of which the broker has executed some but not all commands
MidPipeline(r) == spc[r] = "pipe" /\ spipe[r] >= 1

\* variant: the key is read, not incremented
IncrNone(v) == v

\* the value INCR stores and returns
Incr(v) == v + 1

\* startScheduler's first call and every cron tick: INCR weather:cycle:id
SchedIncr(r) ==
  /\ spc[r] = "idle"
  /\ cycleKey < MaxCycles
  /\ cycleKey' = Incr(cycleKey)
  /\ scyc' = [scyc EXCEPT ![r] = Incr(cycleKey)]
  /\ spc' = [spc EXCEPT ![r] = "incr"]
  /\ UNCHANGED <<processorVars, sideVars, loadVars, clock, cfgVars, keyVars, queue, startKey, stream, sstart,
                 spipe, procVars, workVars, meterVars>>

\* variant: main goes on to startWorkers without awaiting the first cycle
SchedSendEager(r) ==
  /\ spc[r] = "incr"
  /\ sstart' = [sstart EXCEPT ![r] = clock]
  /\ spipe' = [spipe EXCEPT ![r] = 0]
  /\ spc' = [spc EXCEPT ![r] = "pipe"]
  /\ wpc' = [w \in Workers |->
               IF replicaOf(w) = r /\ wpc[w] = "off" THEN "pop" ELSE wpc[w]]
  /\ UNCHANGED <<processorVars, sideVars, loadVars, clock, cfgVars, keyVars, queueVars, stream, scyc,
                 procVars, wjob, wnow, wwake, wattempt, wres, wobs, conn,
                 meterVars>>

\* startMs = Date.now(); the pipeline is built and written to the connection
SchedSend(r) ==
  /\ spc[r] = "incr"
  /\ sstart' = [sstart EXCEPT ![r] = clock]
  /\ spipe' = [spipe EXCEPT ![r] = 0]
  /\ spc' = [spc EXCEPT ![r] = "pipe"]
  /\ UNCHANGED <<processorVars, sideVars, loadVars, clock, cfgVars, keyVars, queueVars, stream, scyc,
                 procVars, workVars, meterVars>>

\* the job LPUSHed for a location; the cycle is carried for observation only
Job(loc, cyc) == <<loc, cyc>>

\* the broker executes the next command of a replica's pipeline
SchedPipeStep(r) ==
  /\ spc[r] = "pipe"
  /\ LET k == spipe[r] + 1
     IN  /\ spipe' = [spipe EXCEPT ![r] = k]
         /\ spc' = [spc EXCEPT ![r] = IF k = PipelineLen THEN "done" ELSE "pipe"]
         /\ startKey' = IF k = 1 THEN sstart[r] ELSE startKey
         /\ queue' = IF k = 1 THEN queue
                     ELSE IF k = 2 THEN <<>>
                     ELSE <<Job(k - 2, scyc[r])>> \o queue
  /\ UNCHANGED <<processorVars, sideVars, loadVars, clock, cfgVars, keyVars, cycleKey, stream, scyc, sstart,
                 procVars, workVars, meterVars>>

\* pipeline.exec() resolved: the cycle is logged; after the first cycle main
\* goes on to startWorkers
SchedDone(r) ==
  /\ spc[r] = "done"
  /\ spc' = [spc EXCEPT ![r] = "idle"]
  /\ spipe' = [spipe EXCEPT ![r] = 0]
  /\ sstart' = [sstart EXCEPT ![r] = 0]
  /\ wpc' = [w \in Workers |->
               IF replicaOf(w) = r /\ wpc[w] = "off" THEN "pop" ELSE wpc[w]]
  /\ UNCHANGED <<processorVars, sideVars, loadVars, clock, cfgVars, keyVars, queueVars, stream, scyc,
                 procVars, wjob, wnow, wwake, wattempt, wres, wobs, conn,
                 meterVars>>

\* ------------------------------------------------- stream and consumer group
\* An entry's ID is its position in the stream.  The group records the ID it
\* was created at, the last ID it delivered, and the pending entries of its one
\* consumer, processor-1.
StreamIds == 1..MaxStream

NoGroup == [exists |-> FALSE, first |-> 0, last |-> 0, pel |-> {}]

\* the IDs the group has delivered, and those of them that were XACKed
Delivered == {id \in StreamIds : grp.first < id /\ id <= grp.last}
Acked == Delivered \ grp.pel

\* the n smallest IDs of a set, ascending
RECURSIVE FirstIds(_, _)
FirstIds(ids, n) ==
  IF ids = {} \/ n = 0 THEN <<>>
  ELSE LET m == CHOOSE i \in ids : \A j \in ids : i <= j
       IN  <<m>> \o FirstIds(ids \ {m}, n - 1)

\* variant: the read starts at the group's first entry whether pending or not
PendingReadAll(g) == FirstIds({id \in StreamIds : g.first < id /\ id <= g.last},
                              BATCH_SIZE)

\* XREADGROUP ... COUNT BATCH_SIZE STREAMS weather:raw 0
PendingRead(g) == FirstIds(g.pel, BATCH_SIZE)

\* XREADGROUP ... COUNT BATCH_SIZE BLOCK 5000 STREAMS weather:raw >
NewRead(g, len) == FirstIds({id \in StreamIds : g.last < id /\ id <= len},
                            BATCH_SIZE)

\* variant: the phase-1 loop breaks after its first read
PendingDoneAtOnce(messages) == TRUE

\* the phase-1 loop breaks on a null or empty reply
PendingDone(messages) == messages = <<>>

\* ------------------------------------------------------------- parseMessage
\* the city name "unknown": cities are named by their number in the catalog,
\* which starts at 1
UnknownCity == 0

\* map.<key> ?? <default>
OrDefault(fields, key, default) ==
  IF key \in DOMAIN fields THEN fields[key] ELSE default

\* the WeatherRecord built from an entry's fields, with the default of each
\* key the entry lacks
ParseMessage(id, fields) ==
  [id                |-> id,
   city_name         |-> OrDefault(fields, "city_name", UnknownCity),
   latitude          |-> ParseFloat(OrDefault(fields, "latitude",
                                              NumberToString(0))),
   longitude         |-> ParseFloat(OrDefault(fields, "longitude",
                                              NumberToString(0))),
   temperature       |-> ParseFloat(OrDefault(fields, "temperature",
                                              NumberToString(0))),
   weather_condition |-> OrDefault(fields, "weather_condition", "unknown"),
   recorded_at       |-> OrDefault(fields, "recorded_at", ToISOString(NowMs))]

\* ------------------------------------------------------------- InfluxWriter
\* variant: the point is stamped with the time of the write() call
PointTimestampNow(point, now) == now

\* the timestamp write() gives the point, in ms; now is the time of the call
PointTimestamp(point, now) == DateParse(point.recorded_at)

\* the Point of measurement "weather" write() builds
WritePoint(point, now) ==
  [city_name         |-> point.city_name,
   weather_condition |-> point.weather_condition,
   temperature       |-> point.temperature,
   latitude          |-> point.latitude,
   longitude         |-> point.longitude,
   timestamp         |-> PointTimestamp(point, now)]

\* what the store tells points apart by: tag set and timestamp
PointKey(p) == <<p.city_name, p.weather_condition, p.timestamp>>

\* the store after a write of points ps: a point replaces one of the same key
Upsert(st, ps) ==
  {q \in st : \A p \in ps : PointKey(p) # PointKey(q)} \cup ps

\* the point write() buffers for entry id when called now
PointOfEntry(id) == WritePoint(ParseMessage(id, stream[id]), NowMs)

\* the writer's flush timer (1 s) fires: the buffer goes to the store
Flush ==
  /\ cpc # "down"
  /\ wstate # "closed"
  /\ wbuf # {}
  /\ store' = Upsert(store, {b[2] : b \in wbuf})
  /\ flushes' = [id \in StreamIds |->
                   IF \E b \in wbuf : b[1] = id THEN Min(2, flushes[id] + 1)
                                               ELSE flushes[id]]
  /\ wbuf' = {}
  /\ UNCHANGED <<fetcherVars, consVars, wstate>>

\* ------------------------------------------------------------ startConsumer
\* main of the processor: a new writer, then startConsumer
ProcStart ==
  /\ cpc = "down"
  /\ cpc' = "ensure"
  /\ pendingAtStart' = grp.pel
  /\ UNCHANGED <<fetcherVars, grp, cphase, cbatch, hret, p1Handled, emptySeen,
                 writeVars>>

\* variant: a group that exists is replaced by a new one
EnsureGroupRecreate ==
  /\ cpc = "ensure"
  /\ grp' = [exists |-> TRUE, first |-> Len(stream), last |-> Len(stream),
             pel |-> {}]
  /\ cpc' = "read"
  /\ UNCHANGED <<fetcherVars, cphase, cbatch, hret, pendingAtStart, p1Handled,
                 emptySeen, writeVars>>

\* ensureGroup: XGROUP CREATE ... $ MKSTREAM, BUSYGROUP ignored
EnsureGroup ==
  /\ cpc = "ensure"
  /\ grp' = IF grp.exists THEN grp
            ELSE [exists |-> TRUE, first |-> Len(stream), last |-> Len(stream),
                  pel |-> {}]
  /\ cpc' = "read"
  /\ UNCHANGED <<fetcherVars, cphase, cbatch, hret, pendingAtStart, p1Handled,
                 emptySeen, writeVars>>

\* ensureGroup: XGROUP CREATE fails with an error other than BUSYGROUP, which
\* ensureGroup rethrows; startConsumer rejects and main exits
EnsureGroupThrows ==
  /\ cpc = "ensure"
  /\ cpc' = "down"
  /\ cphase' = "pending"
  /\ cbatch' = <<>>
  /\ wbuf' = {}
  /\ p1Handled' = {}
  /\ pendingAtStart' = {}
  /\ emptySeen' = FALSE
  /\ wstate' = "open"
  /\ UNCHANGED <<fetcherVars, grp, hret, store, flushes>>

\* one pass of the phase-1 loop up to processMessages
ReadPending ==
  /\ cpc = "read"
  /\ cphase = "pending"
  /\ LET messages == PendingRead(grp)
     IN  /\ emptySeen' = (emptySeen \/ messages = <<>>)
         /\ IF PendingDone(messages)
              THEN /\ cphase' = "new"
                   /\ UNCHANGED <<cpc, cbatch>>
              ELSE /\ cbatch' = messages
                   /\ cpc' = "handle"
                   /\ UNCHANGED cphase
  /\ UNCHANGED <<fetcherVars, grp, hret, pendingAtStart, p1Handled, writeVars>>

\* one pass of the phase-2 loop that got messages (a null reply after
\* BLOCK_MS goes round without a change)
ReadNew ==
  /\ cpc = "read"
  /\ cphase = "new"
  /\ LET messages == NewRead(grp, Len(stream))
     IN  /\ messages # <<>>
         /\ grp' = [grp EXCEPT !.last = messages[Len(messages)],
                               !.pel = @ \cup {messages[i] :
                                                 i \in 1..Len(messages)}]
         /\ cbatch' = messages
         /\ cpc' = "handle"
  /\ UNCHANGED <<fetcherVars, cphase, hret, pendingAtStart, p1Handled,
                 emptySeen, writeVars>>

\* after an iteration of processMessages: the next message, or back to the loop
AfterMessage(batch) == IF Tail(batch) = <<>> THEN "read" ELSE "handle"

\* variant: the XACK is outside the try block
SendsXackAlways(ok) == TRUE

\* processMessages reaches the XACK of a message iff its handler returned
SendsXack(ok) == ok

\* how writer.write can end: it returns (TRUE) or throws (FALSE); writePoint
\* of a closed WriteApi throws, and so does floatField of a value that is not
\* finite
WriteOutcomes(state, point) ==
  IF \/ state = "closed"
     \/ ~IsFinite(point.temperature)
     \/ ~IsFinite(point.latitude)
     \/ ~IsFinite(point.longitude)
    THEN {FALSE}
    ELSE BOOLEAN

\* variant: the XACK is sent before the handler is called
HandleEntryAckFirst ==
  /\ cpc = "handle"
  /\ LET id == Head(cbatch)
     IN  /\ p1Handled' = IF cphase = "pending" THEN p1Handled \cup {id}
                                               ELSE p1Handled
         /\ grp' = [grp EXCEPT !.pel = @ \ {id}]
         /\ \E ok \in WriteOutcomes(wstate, ParseMessage(id, stream[id])) :
              /\ hret' = [hret EXCEPT ![id] = IF ok THEN "ok" ELSE "err"]
              /\ wbuf' = IF ok THEN wbuf \cup {<<id, PointOfEntry(id)>>}
                               ELSE wbuf
         /\ cpc' = AfterMessage(cbatch)
         /\ cbatch' = Tail(cbatch)
  /\ UNCHANGED <<fetcherVars, cphase, pendingAtStart, emptySeen, store,
                 flushes, wstate>>

\* processMessages on the next message of the batch: parseMessage and the
\* handler, which buffers the point (ok) or throws
HandleEntry ==
  /\ cpc = "handle"
  /\ LET id == Head(cbatch)
     IN  /\ p1Handled' = IF cphase = "pending" THEN p1Handled \cup {id}
                                               ELSE p1Handled
         /\ \E ok \in WriteOutcomes(wstate, ParseMessage(id, stream[id])) :
              /\ hret' = [hret EXCEPT ![id] = IF ok THEN "ok" ELSE "err"]
              /\ wbuf' = IF ok THEN wbuf \cup {<<id, PointOfEntry(id)>>}
                               ELSE wbuf
              /\ IF SendsXack(ok)
                   THEN /\ cpc' = "ack"
                        /\ UNCHANGED cbatch
                   ELSE /\ cpc' = AfterMessage(cbatch)
                        /\ cbatch' = Tail(cbatch)
  /\ UNCHANGED <<fetcherVars, grp, cphase, pendingAtStart, emptySeen, store,
                 flushes, wstate>>

\* XACK of the message the handler returned for
AckEntry ==
  /\ cpc = "ack"
  /\ grp' = [grp EXCEPT !.pel = @ \ {Head(cbatch)}]
  /\ cpc' = AfterMessage(cbatch)
  /\ cbatch' = Tail(cbatch)
  /\ UNCHANGED <<fetcherVars, cphase, hret, pendingAtStart, p1Handled,
                 emptySeen, writeVars>>

\* the processor is killed: what it held in memory is gone.  The outcome of a
\* handler whose iteration was cut before the XACK is not kept.
Crash ==
  /\ cpc # "down"
  /\ cpc' = "down"
  /\ cphase' = "pending"
  /\ cbatch' = <<>>
  /\ wbuf' = {}
  /\ hret' = IF cpc = "ack" THEN [hret EXCEPT ![Head(cbatch)] = "none"]
                            ELSE hret
  /\ p1Handled' = {}
  /\ pendingAtStart' = {}
  /\ emptySeen' = FALSE
  /\ wstate' = "open"
  /\ UNCHANGED <<fetcherVars, grp, store, flushes>>

\* SIGINT or SIGTERM: shutdown calls writer.close(), which sends what the
\* buffer holds; the WriteApi is closed when that flush has ended, at once if
\* there was nothing to send.  The loops of startConsumer go on meanwhile.
ProcShutdown ==
  /\ cpc # "down"
  /\ wstate = "open"
  /\ store' = Upsert(store, {b[2] : b \in wbuf})
  /\ flushes' = [id \in StreamIds |->
                   IF \E b \in wbuf : b[1] = id THEN Min(2, flushes[id] + 1)
                                               ELSE flushes[id]]
  /\ wbuf' = {}
  /\ wstate' = IF wbuf = {} THEN "closed" ELSE "closing"
  /\ UNCHANGED <<fetcherVars, consVars>>

\* the flush of close() has ended: from now on writePoint throws
WriterClosed ==
  /\ wstate = "closing"
  /\ wstate' = "closed"
  /\ UNCHANGED <<fetcherVars, consVars, wbuf, store, flushes>>

\* shutdown after writer.close(): redis.quit(), then process.exit(0)
ProcExit ==
  /\ wstate = "closed"
  /\ cpc' = "down"
  /\ cphase' = "pending"
  /\ cbatch' = <<>>
  /\ wbuf' = {}
  /\ hret' = IF cpc = "ack" THEN [hret EXCEPT ![Head(cbatch)] = "none"]
                            ELSE hret
  /\ p1Handled' = {}
  /\ pendingAtStart' = {}
  /\ emptySeen' = FALSE
  /\ wstate' = "open"
  /\ UNCHANGED <<fetcherVars, grp, store, flushes>>

\* a worker's XADD of a fetch result, as the stream sees it (clear sky and
\* 21.4 degrees everywhere)
XaddResult ==
  /\ Len(stream) < MaxStream
  /\ \E city \in Locations, time \in UpstreamTimes(clock) :
       stream' = Append(stream, Entry(WeatherPayload(city,
                                  [time |-> time, weathercode |-> 0,
                                   temperature |-> 214])))
  /\ UNCHANGED <<processorVars, sideVars, loadVars, clock, cfgVars, keyVars, queueVars, schedVars,
                 procVars, workVars, meterVars>>

\* entries the processor can meet that the fetcher's XADD of a full result
\* does not write: one with none of the six keys, and the entry of a result
\* whose temperature was undefined
ForeignEntries ==
  {[source |-> "manual"],
   [Entry(WeatherPayload(1, [time |-> 0, weathercode |-> 0,
                             temperature |-> 214]))
      EXCEPT !.temperature = NotNumeric]}

XaddForeign ==
  /\ Len(stream) < MaxStream
  /\ \E e \in ForeignEntries : stream' = Append(stream, e)
  /\ UNCHANGED <<processorVars, sideVars, loadVars, clock, cfgVars, keyVars, queueVars, schedVars,
                 procVars, workVars, meterVars>>

InitProcessor ==
  /\ grp = NoGroup
  /\ cpc = "down"
  /\ cphase = "pending"
  /\ cbatch = <<>>
  /\ wbuf = {}
  /\ store = {}
  /\ hret = [id \in StreamIds |-> "none"]
  /\ pendingAtStart = {}
  /\ p1Handled = {}
  /\ emptySeen = FALSE
  /\ flushes = [id \in StreamIds |-> 0]
  /\ wstate = "open"

\* ------------------------------------------------------------------- time
Tick ==
  /\ clock < LastInstant
  /\ clock' = NextInstant(clock)
  /\ UNCHANGED <<processorVars, sideVars, loadVars, cfgVars, keyVars, queueVars, stream,
                 schedVars, procVars, workVars, meterVars>>

\* ------------------------------------------------------------ the fetcher
\* the broker outlives the fetcher: at start the bucket is absent or is what
\* an earlier run left behind
DrainedBucket == [present |-> TRUE, tokens |-> 0, last_refill |-> 0,
                  expire |-> BUCKET_TTL_S * TicksPerSec]

\* the bucket an earlier run left with one token
LastTokenBucket == [present |-> TRUE, tokens |-> Scaled(1), last_refill |-> 0,
                    expire |-> BUCKET_TTL_S * TicksPerSec]

InitSideVars ==
  /\ wmock = [w \in Workers |-> NoPayload]
  /\ oks = 0
  /\ fetched = <<>>
  /\ wstart = [w \in Workers |-> 0]
  /\ analyticsMap = [r \in Replicas |-> <<>>]
  /\ lastReportedSecond = [r \in Replicas |-> -1]
  /\ reported = [r \in Replicas |-> <<>>]
  /\ wseen = [w \in Workers |-> <<0, 0>>]
  /\ eternal = NoBucket

\* main (fetcher) has run the first cycle and calls startWorkers
InitLoadVars ==
  /\ lsec = 0
  /\ lqueue = CatalogSize
  /\ lheld = 0
  /\ ltokens = CAPACITY
  /\ ldropped = FALSE

InitProcess(pc0) ==
  /\ clock = 0
  /\ queue = <<>>
  /\ cycleKey = 0
  /\ startKey = -1
  /\ stream = <<>>
  /\ spc = [r \in Replicas |-> "idle"]
  /\ scyc = [r \in Replicas |-> 0]
  /\ sstart = [r \in Replicas |-> 0]
  /\ spipe = [r \in Replicas |-> 0]
  /\ activeCycleId = [r \in Replicas |-> 0]
  /\ cycleStartMs = [r \in Replicas |-> 0]
  /\ wpc = [w \in Workers |-> pc0]
  /\ wjob = [w \in Workers |-> NoJob]
  /\ wnow = [w \in Workers |-> 0]
  /\ wwake = [w \in Workers |-> 0]
  /\ wattempt = [w \in Workers |-> 0]
  /\ wres = [w \in Workers |-> "ok"]
  /\ wobs = [w \in Workers |-> NoResponse]
  /\ conn = [r \in Replicas |-> <<>>]
  /\ grantsAt = [t \in Instants |-> 0]
  /\ requestsAt = [t \in Instants |-> 0]
  /\ popped = {}
  /\ throttles = 0
  /\ InitLoadVars
  /\ InitSideVars
  /\ InitProcessor

\* worker 1 runs in replica 1, the others in either replica
Placements == {p \in [Workers -> Replicas] : p[1] = 1}

InitFetcher ==
  /\ InitProcess("off")
  /\ cooldown = 0
  /\ placement \in Placements
  /\ observe = "none"
  /\ bucket \in {NoBucket, DrainedBucket}

Acquire(w) ==
  \/ AcqPttl(w)
  \/ AcqCooldownOver(w)
  \/ AcqSendEval(w)
  \/ AcqEval(w)
  \/ AcqBackoffOver(w)

Scheduler(r) ==
  \/ SchedIncr(r)
  \/ SchedSend(r)
  \/ SchedPipeStep(r)
  \/ SchedDone(r)

\* -------------------------------------------- the queue and the cycle keys
\* Schedulers and workers on the queue: what a worker does with a job after
\* its MGET (acquire, fetch, append or catch) touches neither the queue nor
\* the cycle keys and is one step here.
JobDone(w) ==
  /\ wpc[w] = "acq_pttl"
  /\ wpc' = [wpc EXCEPT ![w] = "pop"]
  /\ wjob' = [wjob EXCEPT ![w] = NoJob]
  /\ UNCHANGED <<processorVars, sideVars, loadVars, clock, cfgVars, keyVars, queueVars, stream, schedVars,
                 procVars, wnow, wwake, wattempt, wres, wobs, conn, meterVars>>

NextQueue ==
  \/ Tick
  \/ \E r \in Replicas : Scheduler(r)
  \/ \E w \in Workers : BRPop(w) \/ MGet(w) \/ JobDone(w)

SpecQueue == InitFetcher /\ [][NextQueue]_vars

\* ------------------------------------------------- who gets which job
\* Schedulers and workers on the queue alone, on a stopped clock, with the
\* popped jobs recorded: the rest of an iteration after the BRPOP is one step.
IterationDone(w) ==
  /\ wpc[w] = "mget"
  /\ wpc' = [wpc EXCEPT ![w] = "pop"]
  /\ wjob' = [wjob EXCEPT ![w] = NoJob]
  /\ UNCHANGED <<processorVars, sideVars, loadVars, clock, cfgVars, keyVars, queueVars, stream, schedVars,
                 procVars, wnow, wwake, wattempt, wres, wobs, conn, meterVars>>

InitPops ==
  /\ InitProcess("off")
  /\ cooldown = 0
  /\ placement \in Placements
  /\ observe = "pops"
  /\ bucket = NoBucket

NextPops ==
  \/ \E r \in Replicas : Scheduler(r)
  \/ \E w \in Workers : BRPop(w) \/ IterationDone(w)

SpecPops == InitPops /\ [][NextPops]_vars

\* ------------------------------------------- the limiter under steady load
\* Callers of the RateLimiter: each calls acquire() again and again, and
\* notifyThrottled() whenever it likes.
CallerAcquire(w) ==
  /\ wpc[w] = "pop"
  /\ wpc' = [wpc EXCEPT ![w] = "acq_pttl"]
  /\ UNCHANGED <<processorVars, sideVars, loadVars, clock, cfgVars, keyVars, queueVars, stream, schedVars,
                 procVars, wjob, wnow, wwake, wattempt, wres, wobs, conn,
                 meterVars>>

CallerReturn(w) ==
  /\ wpc[w] = "fetch"
  /\ wpc' = [wpc EXCEPT ![w] = "pop"]
  /\ UNCHANGED <<processorVars, sideVars, loadVars, clock, cfgVars, keyVars, queueVars, stream, schedVars,
                 procVars, wjob, wnow, wwake, wattempt, wres, wobs, conn,
                 meterVars>>

CallerThrottled(w) ==
  /\ wpc[w] = "pop"
  /\ cooldown' = NotifyThrottled(cooldown, clock)
  /\ throttles' = ThrottleCount(throttles, observe = "throttles", cooldown,
                                clock)
  /\ UNCHANGED <<processorVars, sideVars, loadVars, clock, cfgVars, bucket, queueVars, stream, schedVars,
                 procVars, workVars, grantsAt, requestsAt, popped>>

InitLimiter ==
  /\ InitProcess("pop")
  /\ cooldown = 0
  /\ placement \in Placements
  /\ observe = "grants"
  /\ bucket = NoBucket

NextLimiter ==
  \/ Tick
  \/ \E w \in Workers :
       \/ CallerAcquire(w)
       \/ Acquire(w)
       \/ CallerReturn(w)
       \/ CallerThrottled(w)

SpecLimiter == InitLimiter /\ [][NextLimiter]_vars

\* ------------------------------------------------- the whole worker loop
\* One fetcher is running, replica 1 with its first n workers; the other
\* workers belong to a replica that is not started.  The state is the one main is in
\* when it calls startWorkers: startScheduler has run the first cycle and the
\* queue holds its jobs.
FirstCycleQueue == [i \in 1..NumLocations |-> Job(NumLocations + 1 - i, 1)]

InitStarted(obs, n, buckets) ==
  /\ clock = 0
  /\ placement = [w \in Workers |-> IF w <= n THEN 1 ELSE 2]
  /\ observe = obs
  /\ bucket \in buckets
  /\ cooldown = 0
  /\ queue = FirstCycleQueue
  /\ cycleKey = 1
  /\ startKey = 0
  /\ stream = <<>>
  /\ spc = [r \in Replicas |-> "idle"]
  /\ scyc = [r \in Replicas |-> IF r = 1 THEN 1 ELSE 0]
  /\ sstart = [r \in Replicas |-> 0]
  /\ spipe = [r \in Replicas |-> 0]
  /\ activeCycleId = [r \in Replicas |-> 0]
  /\ cycleStartMs = [r \in Replicas |-> 0]
  /\ wpc = [w \in Workers |-> IF w <= n THEN "pop" ELSE "off"]
  /\ wjob = [w \in Workers |-> NoJob]
  /\ wnow = [w \in Workers |-> 0]
  /\ wwake = [w \in Workers |-> 0]
  /\ wattempt = [w \in Workers |-> 0]
  /\ wres = [w \in Workers |-> "ok"]
  /\ wobs = [w \in Workers |-> NoResponse]
  /\ conn = [r \in Replicas |-> <<>>]
  /\ grantsAt = [t \in Instants |-> 0]
  /\ requestsAt = [t \in Instants |-> 0]
  /\ popped = {}
  /\ throttles = 0
  /\ InitLoadVars
  /\ InitSideVars
  /\ InitProcessor

InitWorker == InitStarted("none", 2, {NoBucket, DrainedBucket})

RunWorker(w) ==
  \/ BRPop(w)
  \/ MGet(w)
  \/ Acquire(w)
  \/ FetchAttempt(w)
  \/ Xadd(w)
  \/ WorkerCatch(w)

NextWorker ==
  \/ Tick
  \/ \E w \in Workers : RunWorker(w)

SpecWorker == InitWorker /\ [][NextWorker]_vars

\* the same fetcher with a broker whose commands can fail
NextFaults ==
  \/ NextWorker
  \/ \E w \in Workers : BrokerError(w) \/ CatchThrows(w)

SpecFaults == InitWorker /\ [][NextFaults]_vars

\* one worker of the fetcher, with a broker whose commands can fail
InitOneWorker == InitStarted("none", 1, {NoBucket, DrainedBucket})

SpecOneWorker == InitOneWorker /\ [][NextFaults]_vars

\* one worker of the fetcher with its analytics buckets followed
InitCounts == InitStarted("analytics", 1, {NoBucket, DrainedBucket})

SpecCounts == InitCounts /\ [][NextWorker]_vars

\* the same with a broker whose commands can fail
SpecStats == InitCounts /\ [][NextFaults]_vars

\* ------------------------------------------------- the analytics reporter
\* the setInterval callback of startAnalyticsReporter would write a line now.
\* (cycleStartMs is 0 only as long as activeCycleId is: the origin of the
\* clock is not the epoch.)
ReporterDue(r) ==
  /\ activeCycleId[r] # 0
  /\ SecondOffset(clock, cycleStartMs[r]) # lastReportedSecond[r]
  /\ SecondOffset(clock, cycleStartMs[r]) - 1 >= 0

\* the callback writes the line of the second before the current one of the
\* active cycle
Reporter(r) ==
  /\ ReporterDue(r)
  /\ LET currentSecond == SecondOffset(clock, cycleStartMs[r])
         reportSecond == currentSecond - 1
     IN  /\ reported' = [reported EXCEPT ![r] =
                           Append(@, <<activeCycleId[r], reportSecond>>)]
         /\ lastReportedSecond' = [lastReportedSecond EXCEPT ![r] = currentSecond]
  /\ UNCHANGED <<processorVars, wmock, oks, fetched, wstart, analyticsMap,
                 wseen, eternal, loadVars, clock, cfgVars, keyVars, queueVars, stream,
                 schedVars, procVars, workVars, meterVars>>

\* the clock moves on by a tick; the timer's period of 500 ms is no longer
\* than a tick, so the callback has run since the last one
Second ==
  /\ clock < MaxSeconds * TicksPerSec
  /\ \A r \in Replicas : ~ReporterDue(r)
  /\ clock' = clock + 1
  /\ UNCHANGED <<processorVars, sideVars, loadVars, cfgVars, keyVars, queueVars,
                 stream, schedVars, procVars, workVars, meterVars>>

\* one worker of the fetcher in mock mode, the reporter and the cron task,
\* second by second
InitReporter == InitStarted("analytics", 1, {NoBucket})

NextReporter ==
  \/ Second
  \/ Reporter(1)
  \/ Scheduler(1)
  \/ \E w \in Workers :
       \/ BRPop(w)
       \/ MGet(w)
       \/ AcqPttl(w)
       \/ AcqSendEval(w)
       \/ AcqEval(w)
       \/ MockFetchWeather(w)
       \/ Xadd(w)

SpecReporter == InitReporter /\ [][NextReporter]_vars

\* the timer fires and the clock runs
FairReporter == SpecReporter /\ WF_vars(Reporter(1)) /\ WF_vars(Second)

\* the same, with the successes the workers count for the analytics followed
InitAnalytics == InitStarted("oks", 2, {NoBucket, DrainedBucket})

SpecAnalytics == InitAnalytics /\ [][NextFaults]_vars

\* the bucket after the broker has run the EVALs a connection still holds
RECURSIVE DrainEvals(_, _)
DrainEvals(b, evals) ==
  IF evals = <<>> THEN b
  ELSE DrainEvals(ConsumeLua(b, wnow[Head(evals)], clock).bucket, Tail(evals))

\* SIGINT or SIGTERM at replica r: shutdown awaits redis.quit(), which the
\* broker answers after the commands already written to the connection, and
\* calls process.exit(0).  Nothing waits for the workers: each ends where it is.
Shutdown(r) ==
  /\ \E w \in Workers : replicaOf(w) = r /\ wpc[w] \notin {"off", "exited"}
  /\ bucket' = DrainEvals(bucket, conn[r])
  /\ conn' = [conn EXCEPT ![r] = <<>>]
  /\ wpc' = [w \in Workers |-> IF replicaOf(w) = r /\ wpc[w] # "off"
                                 THEN "exited" ELSE wpc[w]]
  /\ UNCHANGED <<processorVars, sideVars, loadVars, clock, cfgVars, cooldown,
                 queueVars, stream, schedVars, procVars, wjob, wnow, wwake,
                 wattempt, wres, wobs, meterVars>>

\* the fetcher and the signal that stops it
NextStop ==
  \/ NextWorker
  \/ \E r \in Replicas : Shutdown(r)

SpecStop == InitWorker /\ [][NextStop]_vars

\* the same fetcher with USE_MOCK=true: fetchWeather is mockFetchWeather,
\* which never throws; nothing answers 429, so the cooldown flag is never set
\* and acquire never sleeps on it
NextMock ==
  \/ Tick
  \/ \E w \in Workers : \/ BRPop(w)
                        \/ MGet(w)
                        \/ AcqPttl(w)
                        \/ AcqSendEval(w)
                        \/ AcqEval(w)
                        \/ AcqBackoffOver(w)
                        \/ MockFetchWeather(w)
                        \/ Xadd(w)

SpecMock == InitWorker /\ [][NextMock]_vars

\* the fetcher in mock mode with its cron task: further cycles begin while
\* the workers run; the bucket starts full and is never drained by the few
\* jobs, so no EVAL is denied
InitBoundary == InitStarted("analytics", 2, {NoBucket})

NextBoundary ==
  \/ Tick
  \/ Scheduler(1)
  \/ \E w \in Workers :
       \/ BRPop(w)
       \/ MGet(w)
       \/ AcqPttl(w)
       \/ AcqSendEval(w)
       \/ AcqEval(w)
       \/ MockFetchWeather(w)
       \/ Xadd(w)

SpecBoundary == InitBoundary /\ [][NextBoundary]_vars

\* ------------------------------------------ the fetcher at its full size
\* One fetcher with its NUM_WORKERS workers, the whole catalog, the bucket and
\* the cron schedule, by numbers: the workers are alike and the queue is in
\* catalog order, so how many hold a job and how many jobs are left says which.
\* The upstream answers at once and a worker's steps take no time: nothing
\* waits but for a token or a job.

\* an idle worker's BRPOP returns the job at the tail of the queue
LoadPop ==
  /\ lheld < NUM_WORKERS
  /\ lqueue > 0
  /\ lqueue' = lqueue - 1
  /\ lheld' = lheld + 1
  /\ ldropped' = IF lqueue = 1 THEN FALSE ELSE ldropped
  /\ UNCHANGED <<processorVars, sideVars, clock, cfgVars, keyVars, queueVars, stream,
                 schedVars, procVars, workVars, meterVars, lsec, ltokens>>

\* a waiting worker's script call is GRANTED; it fetches, appends or catches,
\* and is idle again
LoadGrant ==
  /\ lheld > 0
  /\ ltokens >= 1
  /\ ltokens' = ltokens - 1
  /\ lheld' = lheld - 1
  /\ UNCHANGED <<processorVars, sideVars, clock, cfgVars, keyVars, queueVars, stream,
                 schedVars, procVars, workVars, meterVars, lsec, lqueue,
                 ldropped>>

\* no worker can take a step
LoadQuiet ==
  /\ ~ (lheld < NUM_WORKERS /\ lqueue > 0)
  /\ ~ (lheld > 0 /\ ltokens >= 1)

\* the refill the script computes for one second elapsed
Refilled(tokens) == Min(CAPACITY, tokens + MAX_RPS)

\* a second passes
LoadSecond ==
  /\ LoadQuiet
  /\ lsec < CronPeriod - 1
  /\ lsec' = lsec + 1
  /\ ltokens' = Refilled(ltokens)
  /\ UNCHANGED <<processorVars, sideVars, clock, cfgVars, keyVars, queueVars, stream,
                 schedVars, procVars, workVars, meterVars, lqueue, lheld,
                 ldropped>>

\* the second that ends the minute: cron calls enqueueLocations, whose DEL
\* discards what is left of the queue and whose LPUSHes put the catalog in
LoadCron ==
  /\ LoadQuiet
  /\ lsec = CronPeriod - 1
  /\ lsec' = 0
  /\ ltokens' = Refilled(ltokens)
  /\ lqueue' = CatalogSize
  /\ ldropped' = (ldropped \/ lqueue > 0)
  /\ UNCHANGED <<processorVars, sideVars, clock, cfgVars, keyVars, queueVars, stream,
                 schedVars, procVars, workVars, meterVars, lheld>>

InitLoad ==
  /\ InitProcess("off")
  /\ cooldown = 0
  /\ placement = [w \in Workers |-> 1]
  /\ observe = "none"
  /\ bucket = NoBucket

NextLoad ==
  \/ LoadPop
  \/ LoadGrant
  \/ LoadSecond
  \/ LoadCron

SpecLoad == InitLoad /\ [][NextLoad]_vars

\* the workers run and time passes
FairLoad == SpecLoad /\ WF_vars(NextLoad)

\* ------------------------------------------- the limiter and the cooldown
\* The same callers, the notifyThrottled calls counted instead of the grants;
\* the broker may hold a cooldown that an earlier run set half its TTL ago.
LeftCooldown == (COOLDOWN_S * TicksPerSec) \div 2

InitAcquire ==
  /\ InitProcess("pop")
  /\ cooldown \in {0, LeftCooldown}
  /\ placement \in Placements
  /\ observe = "throttles"
  /\ bucket = NoBucket

SpecAcquire == InitAcquire /\ [][NextLimiter]_vars

\* Every caller is inside one acquire() call, against a bucket that is absent
\* or drained and a cooldown that is absent or left over; a caller that got
\* its token returns, and may then report a 429.
InitWaiters ==
  /\ InitProcess("acq_pttl")
  /\ cooldown \in {0, LeftCooldown}
  /\ placement \in Placements
  /\ observe = "throttles"
  /\ bucket \in {NoBucket, DrainedBucket}

NextWaiters ==
  \/ Tick
  \/ \E w \in Workers :
       \/ Acquire(w)
       \/ CallerReturn(w)
       \/ CallerThrottled(w)

SpecWaiters == InitWaiters /\ [][NextWaiters]_vars

\* time advances, and a caller inside acquire() is not starved of its steps
FairWaiters ==
  /\ SpecWaiters
  /\ WF_vars(Tick)
  /\ \A w \in Workers : WF_vars(Acquire(w))

\* ---------------------------------------------- the limiter under eviction
\* The bucket key is deleted (evicted, flushed) while the limiter is in use.
BucketDeleted ==
  /\ bucket.present
  /\ bucket' = NoBucket
  /\ UNCHANGED <<processorVars, sideVars, loadVars, clock, cfgVars, cooldown, queueVars, stream,
                 schedVars, procVars, workVars, meterVars>>

\* ------------------------------------------- the limiter over idle periods
\* One caller of acquire on a broker of its own: the script runs with the
\* caller's current time, on the bucket and on its twin that is kept alive.
IdleHorizon == MaxIdle * (BUCKET_TTL_S * TicksPerSec + 1)

\* a tick, and the periods around the key's time to live
IdlePeriods == {1} \cup {BUCKET_TTL_S * TicksPerSec + k : k \in {-1, 0, 1}}

EvalNow ==
  /\ bucket' = ConsumeLua(bucket, clock, clock).bucket
  /\ eternal' = ConsumeLua(KeptAlive(eternal, clock), clock, clock).bucket
  /\ UNCHANGED <<processorVars, wmock, oks, fetched, wstart, analyticsMap,
                 lastReportedSecond, reported, wseen, loadVars, clock, cfgVars,
                 cooldown, queueVars, stream, schedVars, procVars, workVars,
                 meterVars>>

\* nobody acquires for d ticks
Idle(d) ==
  /\ clock + d <= IdleHorizon
  /\ clock' = clock + d
  /\ UNCHANGED <<processorVars, sideVars, loadVars, cfgVars, keyVars, queueVars,
                 stream, schedVars, procVars, workVars, meterVars>>

InitExpiry ==
  /\ InitProcess("off")
  /\ cooldown = 0
  /\ placement = [w \in Workers |-> 1]
  /\ observe = "none"
  /\ bucket = NoBucket

NextExpiry ==
  \/ EvalNow
  \/ \E d \in IdlePeriods : Idle(d)

SpecExpiry == InitExpiry /\ [][NextExpiry]_vars

NextEviction ==
  \/ NextLimiter
  \/ BucketDeleted

SpecEviction == InitLimiter /\ [][NextEviction]_vars

\* --------------------------------------------- the upstream under that load
\* Workers that always have a job: each goes from one acquire-and-fetch to
\* the next without waiting for the queue or appending to the stream.
CallerFetched(w) ==
  /\ wpc[w] = "xadd"
  /\ wpc' = [wpc EXCEPT ![w] = "pop"]
  /\ wobs' = [wobs EXCEPT ![w] = NoResponse]
  /\ UNCHANGED <<processorVars, sideVars, loadVars, clock, cfgVars, keyVars, queueVars, stream, schedVars,
                 procVars, wjob, wnow, wwake, wattempt, wres, conn, meterVars>>

InitUpstream ==
  /\ InitProcess("pop")
  /\ cooldown = 0
  /\ placement \in Placements
  /\ observe = "requests"
  /\ bucket = NoBucket

NextUpstream ==
  \/ Tick
  \/ \E w \in Workers :
       \/ CallerAcquire(w)
       \/ Acquire(w)
       \/ FetchAttempt(w)
       \/ CallerFetched(w)
       \/ WorkerCatch(w)

SpecUpstream == InitUpstream /\ [][NextUpstream]_vars

\* ------------------------------------------------------------ the processor
\* The processor on a stream that workers append to; it can be killed at any
\* point and started again.
InitConsumer ==
  /\ InitProcess("off")
  /\ cooldown = 0
  /\ placement = [w \in Workers |-> 1]
  /\ observe = "none"
  /\ bucket = NoBucket

ConsumerStep ==
  \/ EnsureGroup
  \/ ReadPending
  \/ ReadNew
  \/ HandleEntry
  \/ AckEntry

NextConsumer ==
  \/ Tick
  \/ XaddResult
  \/ ProcStart
  \/ ConsumerStep
  \/ EnsureGroupThrows
  \/ Flush
  \/ Crash

SpecConsumer == InitConsumer /\ [][NextConsumer]_vars

\* the processor with entries of every kind in the stream
NextParse ==
  \/ Tick
  \/ XaddResult
  \/ XaddForeign
  \/ ProcStart
  \/ ConsumerStep
  \/ Flush

SpecParse == InitConsumer /\ [][NextParse]_vars

\* the processor on a stopped clock: every observation is of the same time
NextGroup ==
  \/ XaddResult
  \/ ProcStart
  \/ ConsumerStep
  \/ EnsureGroupThrows
  \/ Flush
  \/ Crash

SpecGroup == InitConsumer /\ [][NextGroup]_vars

\* the processor and the signal that stops it
NextShutdown ==
  \/ Tick
  \/ XaddResult
  \/ ProcStart
  \/ ConsumerStep
  \/ Flush
  \/ ProcShutdown
  \/ WriterClosed
  \/ ProcExit

SpecShutdown == InitConsumer /\ [][NextShutdown]_vars

\* a running processor is not starved: its pending step is taken, and the
\* flush timer fires
FairConsumer == SpecConsumer /\ WF_vars(ConsumerStep) /\ WF_vars(Flush)

\* ------------------------------------------------ from upstream to store
\* One worker of the fetcher and the processor with its writer, nothing
\* failing but the upstream: what is fetched is appended, read, written and flushed.
InitPipeline == InitStarted("trip", 1, {LastTokenBucket})

NextPipeline ==
  \/ NextWorker
  \/ ProcStart
  \/ ConsumerStep
  \/ Flush

SpecPipeline == InitPipeline /\ [][NextPipeline]_vars

\* ================================================================= claims
\* C1: under any interleaving of acquire() calls by the workers of all fetcher
\* replicas, the GRANTED results in every window of length D number at most
\* ceil(CAPACITY + MAX_RPS * D).
GrantsWithinRate == WithinRate(grantsAt)

\* C2: the HTTP requests sent to the upstream by all workers, retries
\* included, number at most ceil(CAPACITY + MAX_RPS * D) in every window of
\* length D.
RequestsWithinRate == WithinRate(requestsAt)

\* the queue holds the jobs of cycle c, one per catalog location, and nothing
\* else
QueueIsCycle(q, c) ==
  /\ Len(q) = NumLocations
  /\ {q[i] : i \in 1..Len(q)} = {Job(loc, c) : loc \in Locations}

\* C9: at the instant the last command of an enqueueLocations call has taken
\* effect, the queue holds exactly the jobs of that call's cycle, one per
\* location.
EnqueueLeavesFullQueue ==
  [][\A r \in Replicas :
       (spc[r] = "pipe" /\ spc'[r] = "done") => QueueIsCycle(queue', scyc[r])]_vars

\* C10: no worker's pop or cycle-metadata read takes effect while the broker
\* has executed some but not all commands of an enqueueLocations pipeline.
RefreshIsAtomic ==
  [][\A w \in Workers :
       (\/ wpc[w] = "pop" /\ wpc'[w] = "mget"
        \/ wpc[w] = "mget" /\ wpc'[w] = "acq_pttl")
       => \A r \in Replicas : ~MidPipeline(r)]_vars

\* the handler has returned for entry id and the XACK has not yet been sent
InFlight(id) == cpc = "ack" /\ Head(cbatch) = id

\* C3: a delivered entry whose processMessages iteration has ended is
\* acknowledged if and only if the handler returned without error for it.
AckIffHandlerReturned ==
  \A id \in Delivered : InFlight(id) \/ (id \in Acked <=> hret[id] = "ok")

\* one entry acknowledged after its handler returned, another left pending
\* after its handler threw
AckIffHandlerReturnedWitness ==
  /\ \E id \in Acked : hret[id] = "ok"
  /\ \E id \in grp.pel : hret[id] = "err" /\ ~InFlight(id)

\* the point of entry id is in the store
Stored(id) == \E p \in store : PointKey(p) = PointKey(PointOfEntry(id))

\* the point of entry id is in the writer's buffer
Buffered(id) == \E b \in wbuf : b[1] = id

\* C4: an entry is never acknowledged unless its point reaches the store: the
\* point of an acknowledged entry is in the store or on its way there.
AckedPointIsKept == \A id \in Acked : Stored(id) \/ Buffered(id)

\* C5: since the last start, phase 1 has passed to the handler only entries
\* that were pending (delivered and unacknowledged) at that start, and when it
\* hands over to phase 2 it has passed every one of them.
Phase1ReplaysPending ==
  cpc # "down" =>
    /\ p1Handled \subseteq pendingAtStart
    /\ cphase = "new" => p1Handled = pendingAtStart

\* phase 1 is over after a start that found pending entries beside
\* acknowledged ones
Phase1ReplaysPendingWitness ==
  /\ cpc = "read"
  /\ cphase = "new"
  /\ p1Handled # {}
  /\ \E id \in Delivered : id \notin pendingAtStart /\ hret[id] = "ok"

\* C6: a read of new messages (the group's last-delivered ID advances) takes
\* place only after a read of the pending list has returned empty since the
\* start.
NewAfterEmptyPending ==
  [][(grp.exists /\ grp'.last # grp.last) => emptySeen]_vars

\* new messages are being processed after a start that found pending entries
NewAfterEmptyPendingWitness ==
  /\ cphase = "new"
  /\ cpc = "handle"
  /\ pendingAtStart # {}

\* C7: a processor that is in phase 1 reaches phase 2 (unless it is killed
\* first), whatever the handler does with the pending entries.
Phase1Terminates ==
  (cpc # "down" /\ cphase = "pending") ~> (cphase = "new" \/ cpc = "down")

\* the key of the observation an entry carries
ObservationKey(fields) ==
  <<fields.city_name, fields.weather_condition, DateParse(fields.recorded_at)>>

\* the entries of which a point has been flushed to the store
Written == {id \in StreamIds : flushes[id] > 0}

\* C8: the store holds one point per distinct (city_name, weather_condition,
\* timestamp) key among the observations written to it, however often each
\* was written.
OnePointPerKey ==
  Cardinality(store) = Cardinality({ObservationKey(stream[id]) : id \in Written})

\* an entry whose point was flushed, replayed after a restart and flushed again
OnePointPerKeyWitness ==
  \E id \in StreamIds : flushes[id] = 2 /\ id \in Acked


\* C11: a pop returns a job that no earlier pop has returned and that no other
\* worker holds: within a cycle each location goes to one worker, once.
PopOnce ==
  [][\A w \in Workers :
       (wpc[w] = "pop" /\ wpc'[w] = "mget") =>
         /\ wjob'[w] \notin popped
         /\ \A v \in Workers \ {w} : wjob[v] # wjob'[w]]_vars

\* every job of a cycle has been popped, and two workers hold one each
PopOnceWitness ==
  /\ \E c \in 1..MaxCycles : {Job(loc, c) : loc \in Locations} \subseteq popped
  /\ \E v, w \in Workers :
       /\ v # w
       /\ wjob[v] # NoJob
       /\ wjob[w] # NoJob
       /\ wjob[v][2] = wjob[w][2]

\* C18: the cycle ID an enqueueLocations call obtains is greater than the ID
\* obtained by every earlier call of either scheduler.
CycleIdsIncrease ==
  [][\A r \in Replicas :
       (spc[r] = "idle" /\ spc'[r] = "incr") =>
         \A q \in Replicas : scyc'[r] > scyc[q]]_vars

\* both schedulers have obtained a cycle ID, the later one after the other's
CycleIdsIncreaseWitness ==
  /\ scyc[1] > 0
  /\ scyc[2] > scyc[1]
  /\ spc[2] = "incr"

\* C13: the cooldown key changes only when a notifyThrottled call finds it
\* absent, and then it expires COOLDOWN_S later: calls made while it is
\* present, at the same time or later, leave its expiry alone.
CooldownSetOnce ==
  [][cooldown' # cooldown =>
       /\ cooldown <= clock
       /\ cooldown' = clock + COOLDOWN_S * TicksPerSec]_vars

\* a cooldown is in force that a second notifyThrottled call has found set
CooldownSetOnceWitness ==
  /\ cooldown > clock
  /\ throttles = 2

\* C14: no acquire() is GRANTED a token while the cooldown key is present.
NoGrantInCooldown ==
  [][\A w \in Workers :
       (wpc[w] = "acq_eval" /\ wpc'[w] = "fetch") => cooldown <= clock]_vars

\* the positions of a caller inside acquire()
InAcquire(w) ==
  wpc[w] \in {"acq_pttl", "acq_cooldown", "acq_now", "acq_eval", "acq_backoff"}

\* the clock has reached the last instant and no token can be had there: the
\* bucket is empty with no refill due, or a cooldown is in force
HorizonReached ==
  /\ clock = LastInstant
  /\ \/ cooldown > clock
     \/ /\ BucketLive(bucket, clock)
        /\ bucket.tokens < Scaled(1)
        /\ bucket.last_refill >= clock

\* C15: a caller inside acquire() gets out of it holding a token, after
\* denials and cooldowns if need be, as long as time goes on: up to the last
\* instant, where it may find nothing left to have.
AcquireReturns ==
  \A w \in Workers : InAcquire(w) ~> (wpc[w] = "fetch" \/ HorizonReached)

\* a caller got out with a token from the refill of a bucket that was drained,
\* while another is still backing off from its denial
AcquireReturnsWitness ==
  /\ clock > 0
  /\ bucket.present
  /\ bucket.last_refill > 0
  /\ bucket.tokens < Scaled(CAPACITY)
  /\ \E v, w \in Workers : wpc[v] = "fetch" /\ wpc[w] = "acq_backoff"

\* C16: the stored token count lies between 0 and the capacity.
TokensInRange ==
  bucket.present => 0 <= bucket.tokens /\ bucket.tokens <= Scaled(CAPACITY)

\* a bucket refilled to the cap and drawn from, by a script call that came
\* with a later timestamp than the one before
TokensInRangeWitness ==
  /\ bucket.present
  /\ bucket.last_refill > 0
  /\ bucket.expire > bucket.last_refill + BUCKET_TTL_S * TicksPerSec - 1
  /\ bucket.tokens = Scaled(CAPACITY) - Scaled(1)
  /\ \E w \in Workers : wpc[w] = "acq_backoff"

\* C17: with all callers on one connection, the grants in every window stay
\* within the rate bound when the bucket key is deleted in between.
GrantsWithinRateAfterDeletion ==
  (\A w \in Workers : placement[w] = 1) => WithinRate(grantsAt)

WorkersKeepRunning == \A w \in Workers : wpc[w] # "dead"

\* C12: when the job of the last catalog entry has been deleted with the
\* queue, some worker dequeues that entry's job in a later cycle.
DroppedIsRetried == ldropped ~> ~ldropped

\* the point the claim expects for location loc and upstream response cw
ExpectedPoint(loc, cw) ==
  [city_name         |-> Location(loc).city_name,
   latitude          |-> Location(loc).latitude,
   longitude         |-> Location(loc).longitude,
   temperature       |-> cw.temperature,
   weather_condition |-> IF cw.weathercode \in DOMAIN WMO_CODES
                           THEN WMO_CODES[cw.weathercode]
                           ELSE "WMO-" \o ToString(cw.weathercode),
   timestamp         |-> cw.time * 1000]

WriteBeforeAck ==
  [][\A id \in StreamIds :
       (id \in grp.pel /\ id \notin grp'.pel)
       => /\ cpc = "ack" /\ Head(cbatch) = id
          /\ hret[id] = "ok"
          /\ Buffered(id) \/ Stored(id)]_vars

\* an entry acknowledged while its point is still in the buffer, and a later
\* one whose write threw, pending and not acknowledged when the loop reads on
WriteBeforeAckWitness ==
  /\ cpc = "read"
  /\ \E id \in Acked : hret[id] = "ok" /\ Buffered(id) /\ ~Stored(id)
  /\ \E id \in grp.pel : hret[id] = "err"

\* C22: ensureGroup leaves the group existing whenever it returns: a missing
\* group is created at the end of the stream, an existing one is left as it
\* is; when it throws, the group is untouched and the processor reads
\* nothing.  The loops of startConsumer run only with the group in place.
EnsureGroupOutcome ==
  /\ [](cpc \in {"read", "handle", "ack"} => grp.exists)
  /\ [][cpc = "ensure" =>
          \/ /\ cpc' = "read"
             /\ grp' = IF grp.exists THEN grp
                       ELSE [exists |-> TRUE, first |-> Len(stream),
                             last |-> Len(stream), pel |-> {}]
          \/ /\ cpc' \in {"ensure", "down"}
             /\ grp' = grp]_vars

\* a restarted processor found the group of its earlier run, with entries
\* delivered, one of them pending, and went on to read with the group as it was
EnsureGroupOutcomeWitness ==
  /\ cpc = "read" /\ cphase = "pending" /\ p1Handled = {}
  /\ pendingAtStart # {} /\ grp.pel = pendingAtStart
  /\ grp.last < Len(stream)

\* C23: the recorded_at of every observation is the observation time the
\* upstream reported, in real mode and in mock mode alike: a worker appends an
\* entry only with a response of the upstream in hand, and the entry's
\* recorded_at denotes that response's time.
RecordedAtIsUpstreamTime ==
  [][\A w \in Workers :
       (wpc[w] = "xadd" /\ wpc'[w] = "pop" /\ Len(stream') > Len(stream))
       => /\ wobs[w] \in Responses(clock)
          /\ stream'[Len(stream')].recorded_at
               = ToISOString(wobs[w].time * 1000)]_vars

\* C25: one fetchWeather call sends at most 5 HTTP requests in all: a
\* request that a worker sends is at most the fifth of its call (wattempt is
\* the number of requests of the call that have failed and been retried).
AtMostFiveAttempts ==
  [][\A w \in Workers :
       (wpc[w] = "fetch" /\ (wpc'[w] # "fetch" \/ wattempt'[w] # wattempt[w]))
       => wattempt[w] + 1 <= 5]_vars

\* C26: when the fetcher exits on SIGINT/SIGTERM, every fetch that was in
\* flight at the signal has completed: no worker is inside fetchWeather, or
\* between its return and the XADD or the end of the catch block, at the step
\* that closes the connection and exits.
FetchesCompleteBeforeExit ==
  [][\A w \in Workers :
       (wpc[w] # "exited" /\ wpc'[w] = "exited")
       => wpc[w] \notin {"fetch", "xadd", "catch"}]_vars

\* C27: on SIGINT/SIGTERM the processor exits with every buffered point
\* flushed and the pending entries left pending, and no entry that is handled
\* once the writer is closed goes on to its XACK.
ShutdownFlushesBuffer ==
  /\ [][(wstate = "closed" /\ cpc' = "down") => (wbuf = {} /\ grp' = grp)]_vars
  /\ [][(wstate = "closed" /\ cpc = "handle") => cpc' # "ack"]_vars

CachedPairConsistent ==
  \A r, q \in Replicas :
    (activeCycleId[r] = scyc[q] /\ spc[q] = "pipe" /\ spipe[q] >= 1)
    => cycleStartMs[r] = sstart[q]

\* C30: a worker counts the success of a job only after the XADD of its
\* observation: the successes counted never exceed the entries appended.
SuccessAfterAppend == oks <= Len(stream)

\* C31: within a worker the fetch of a job begins only when the script has
\* answered GRANTED to that worker's own EVAL, with the job it dequeued still
\* in hand; and a job whose iteration reaches the catch block (its acquire
\* rejected, among others) is dropped without a fetch.
FetchAfterGrant ==
  [][\A w \in Workers :
       /\ (wpc'[w] = "fetch" /\ wpc[w] # "fetch") =>
            /\ wpc[w] = "acq_eval"
            /\ Head(conn[replicaOf(w)]) = w
            /\ ConsumeLua(bucket, wnow[w], clock).granted
            /\ wjob[w] # NoJob
            /\ wjob'[w] = wjob[w]
       /\ wattempt'[w] # wattempt[w] =>
            wpc[w] = "fetch" /\ wjob[w] # NoJob
       /\ (wpc[w] = "catch" /\ wpc'[w] # "catch") =>
            wpc'[w] # "fetch" /\ wjob'[w] = NoJob]_vars

\* a worker retries the fetch of the job its granted EVAL let through
FetchAfterGrantWitness ==
  \E w \in Workers :
    /\ wpc[w] = "fetch" /\ wjob[w] # NoJob /\ wattempt[w] > 0
    /\ bucket.present

\* the second buckets that differ between two maps
ChangedBuckets(old, new) ==
  {k \in DOMAIN new : k \notin DOMAIN old \/ new[k] # old[k]}

ClaimedRetryable == {"net", "timeout", "s429", "s500", "s501", "s503"}

\* C33: a fetchWeather call ends with a failure of a retry-eligible class only
\* when its retries are used up: while retries are left, such a failure is
\* followed by another attempt.
RetriesWhenEligible ==
  [][\A w \in Workers :
       (wpc[w] = "fetch" /\ wpc'[w] = "catch" /\ wres'[w] \in ClaimedRetryable)
         => wattempt[w] >= RETRIES]_vars

\* C34: a successful fetch is counted in the second bucket of the cycle the
\* worker's own MGET found after the job was dequeued, at the offset of its
\* fetchStart from that cycle's start, and the offset is not negative.
SuccessInOwnCycle ==
  [][\A w \in Workers :
       (wpc[w] = "fetch" /\ wpc'[w] = "xadd") =>
         LET r == replicaOf(w)
             secondOffset == SecondOffset(wstart[w], wseen[w][2])
         IN  /\ secondOffset >= 0
             /\ analyticsMap'[r] =
                  Increment(analyticsMap[r], wseen[w][1], secondOffset, "ok")
    ]_vars

\* the jobs dequeued so far, where the queue is only popped from
Dequeued == Len(FirstCycleQueue) - Len(queue)

\* the workers that hold a dequeued job
InHand == Cardinality({w \in Workers : wjob[w] # NoJob})

\* C37: the counters of all second buckets add up to the number of dequeued
\* jobs whose processing has finished: never more than the jobs dequeued,
\* never fewer than those no worker holds any longer.
OneCounterPerJob ==
  LET total == CounterSum(analyticsMap[1], "ok")
                 + CounterSum(analyticsMap[1], "fail")
                 + CounterSum(analyticsMap[1], "timeout")
  IN  Dequeued - InHand <= total /\ total <= Dequeued

\* an outcome was recorded for second s of cycle c in the fetcher's map
Recorded(c, s) ==
  /\ <<c, s>> \in DOMAIN analyticsMap[1]
  /\ analyticsMap[1][<<c, s>>] # EmptyBucket

\* second s of cycle c is over while the fetcher is in cycle c
Completed(c, s) ==
  /\ activeCycleId[1] = c
  /\ SecondOffset(clock, cycleStartMs[1]) > s

\* the reporter has written the line of second s of cycle c
Reported(c, s) == \E i \in DOMAIN reported[1] : reported[1][i] = <<c, s>>

NoNumber(fields, key) ==
  key \notin DOMAIN fields \/ "text" \in DOMAIN fields[key]

\* C36: for every entry of the stream parseMessage gives each missing key its
\* default (city and condition "unknown", numerics 0, the timestamp now) and
\* gives 0 for a numeric field that does not parse; and an entry whose
\* handling fails is not acknowledged while the batch goes on with the next.
ParseFallbacks ==
  /\ [](\A id \in DOMAIN stream :
         LET fields == stream[id]
             record == ParseMessage(id, fields)
         IN  /\ "city_name" \notin DOMAIN fields =>
                  record.city_name = UnknownCity
             /\ "weather_condition" \notin DOMAIN fields =>
                  record.weather_condition = "unknown"
             /\ "recorded_at" \notin DOMAIN fields =>
                  record.recorded_at = ToISOString(NowMs)
             /\ \A key \in {"latitude", "longitude", "temperature"} :
                  NoNumber(fields, key) => record[key] = 0)
  /\ [][(cpc = "handle" /\ hret'[Head(cbatch)] = "err") =>
          /\ grp' = grp
          /\ cbatch' = Tail(cbatch)
          /\ cpc' = AfterMessage(cbatch)]_vars

\* C38: the handler is given only entries appended after the group was
\* created, and every entry appended after that is delivered to the processor:
\* while the processor is up, it is read sooner or later.
DeliveredIffLater ==
  /\ [](cpc \in {"handle", "ack"} =>
         grp.first < Head(cbatch) /\ Head(cbatch) <= Len(stream))
  /\ \A id \in StreamIds :
       (grp.exists /\ grp.first < id /\ id <= Len(stream) /\ cpc # "down")
         ~> (id <= grp.last \/ cpc = "down")

\* C39: the last_refill stored in the bucket never decreases from one
\* evaluation of the script to the next, as long as the key lives.
LastRefillMonotone ==
  [][(BucketLive(bucket, clock) /\ bucket' # bucket) =>
       bucket'.last_refill >= bucket.last_refill]_vars

\* C40: at every moment the next evaluation of the script gives the same
\* result on the bucket whose key expires after 60 s as on the bucket whose
\* key never expires.
ExpiryUnobservable ==
  ConsumeLua(bucket, clock, clock).granted
    = ConsumeLua(KeptAlive(eternal, clock), clock, clock).granted

\* the key was drained and has expired since; its twin is still there
ExpiryUnobservableWitness ==
  /\ bucket.present
  /\ bucket.tokens = 0
  /\ ~BucketLive(bucket, clock)
  /\ BucketLive(KeptAlive(eternal, clock), clock)
  /\ eternal.tokens = 0

====
